---- MODULE Spec2Model ----
(***************************************************************************)
(* Model of the Cortex MCP repository: the runtime server                  *)
(* (src/server/main.py), the name normalizer and tool generator            *)
(* (src/codegen/generator.py).                                             *)
(*                                                                         *)
(* Python values are modelled as follows.                                  *)
(*   - a str that is only compared is a TLA+ string;                       *)
(*   - a str that is scanned (to_snake_case) is a sequence of one          *)
(*     character strings;                                                  *)
(*   - an f-string is the tuple of its pieces;                             *)
(*   - None is the tuple <<"None">>;                                        *)
(*   - a dict is a record [keys, val]: keys is the insertion order (a      *)
(*     sequence without repetition), val the mapping.                      *)
(***************************************************************************)
EXTENDS Naturals, Sequences, FiniteSets

VARIABLES
    \* ---- runtime server (src/server/main.py) ----
    state,            \* "uninitialized" | "serving"
    xsiam,            \* generated_xsiam_tools: the module's three dicts
    xsoar,            \* generated_xsoar_tools
    unified,          \* generated_unified_tools
    unifiedImported,  \* FALSE when the import of generated_unified_tools failed
    TOOL_HANDLERS,    \* merged registry of run_server
    TOOL_SCHEMAS,
    TOOL_DESCRIPTIONS,
    DOCS,             \* dict uri -> path, filled once by run_server
    disk,             \* markdown files (relative paths) now under docs_root
    request,          \* the last request the transport delivered
    response,         \* what its handler returned or raised
    \* ---- name normalizer (src/codegen/generator.py) ----
    name,             \* the argument of to_snake_case, a sequence of characters
    snake1,           \* to_snake_case(name)
    snake2,           \* to_snake_case(to_snake_case(name))
    pcSnake,          \* "idle" | "start" | "once" | "twice"
    \* ---- platform tool-file generator ----
    whitelist,        \* the platform's whitelist: a sequence of <<key, entry>>
    openapi,          \* the platform's OpenAPI document: its operations
    platform,         \* "xsiam" | "xsoar"
    generated,        \* the registry written to generated_<platform>_tools.py
    diagnostics,      \* the whitelist keys reported as skipped
    pcGen,            \* "idle" | "start" | "done"
    \* ---- a unified tool's handler ----
    uEntry,           \* the unified whitelist entry: its binding per platform
    uPlatform,        \* the "platform" argument of the call, None when absent
    uIssued,          \* the upstream requests the call issued
    uResult,          \* how the call ended
    pcUnified,        \* "idle" | "start" | "done"
    \* ---- a handler generate_tool_function emits ----
    hParams,          \* the operation's declared parameters
    hRoute,           \* the route template, a sequence of segments
    hArgs,            \* the arguments of the call, by declared parameter
    hOut,             \* the buckets, the URL and the request of the call
    pcHandler,        \* "idle" | "start" | "done"
    \* ---- main of the generator ----
    spec_files,       \* the spec files of the run, in processing order
    mIndex,           \* the file the loop is at
    written,          \* the spec files whose artifact was written
    pcMain,           \* "idle" | "loop" | "done" | "failed"
    \* ---- documentation generator ----
    dSource,          \* "xsiam" | "xsoar" | "unified"
    dTools,           \* the tools extracted from the source's registry
    dCategories,      \* the dict category -> tools that categorize returned
    pcDocs,           \* "idle" | "start" | "done"
    \* ---- requests in flight on the event loop ----
    cTasks,           \* the request tasks, each with its position
    pcConc            \* "idle" | "serving"

serverVars == <<state, xsiam, xsoar, unified, unifiedImported, TOOL_HANDLERS,
                TOOL_SCHEMAS, TOOL_DESCRIPTIONS, DOCS, disk, request, response>>

snakeVars == <<name, snake1, snake2, pcSnake>>

genVars == <<whitelist, openapi, platform, generated, diagnostics, pcGen>>

unifiedVars == <<uEntry, uPlatform, uIssued, uResult, pcUnified>>

handlerVars == <<hParams, hRoute, hArgs, hOut, pcHandler>>

mainVars == <<spec_files, mIndex, written, pcMain>>

docsVars == <<dSource, dTools, dCategories, pcDocs>>

concVars == <<cTasks, pcConc>>

lateVars == <<unifiedVars, handlerVars, mainVars, docsVars, concVars>>

vars == <<serverVars, snakeVars, genVars, lateVars>>

UnifiedIdle ==
    /\ uEntry = <<>>
    /\ uPlatform = <<>>
    /\ uIssued = <<>>
    /\ uResult = <<>>
    /\ pcUnified = "idle"

HandlerIdle ==
    /\ hParams = <<>>
    /\ hRoute = <<>>
    /\ hArgs = <<>>
    /\ hOut = <<>>
    /\ pcHandler = "idle"

MainIdle ==
    /\ spec_files = <<>>
    /\ mIndex = 0
    /\ written = {}
    /\ pcMain = "idle"

DocsIdle ==
    /\ dSource = "xsiam"
    /\ dTools = <<>>
    /\ dCategories = <<>>
    /\ pcDocs = "idle"

ConcIdle ==
    /\ cTasks = <<>>
    /\ pcConc = "idle"

LateIdle == UnifiedIdle /\ HandlerIdle /\ MainIdle /\ DocsIdle /\ ConcIdle

None == <<"None">>

----------------------------------------------------------------------------
(* Bounds of the model *)

\* most tools one generated module registers
MaxTools == 2

\* longest enumerated argument of to_snake_case
MaxLen == 4

\* most entries in one platform's whitelist
MaxEntries == 2

----------------------------------------------------------------------------
(* Python dict *)

EmptyDict == [keys |-> <<>>, val |-> [k \in {} |-> None]]

DictKeySet(d) == DOMAIN d.val

\* dict.get(k): None when k is no key
DictGet(d, k) == IF k \in DOMAIN d.val THEN d.val[k] ELSE None

\* d[k] = v: a new key goes last, an existing key keeps its place
DictSet(d, k, v) ==
    IF k \in DOMAIN d.val
    THEN [d EXCEPT !.val[k] = v]
    ELSE [keys |-> Append(d.keys, k),
          val  |-> [x \in (DOMAIN d.val) \cup {k} |-> IF x = k THEN v ELSE d.val[x]]]

RECURSIVE DictUpdateFrom(_, _, _)
DictUpdateFrom(d, e, i) ==
    IF i > Len(e.keys) THEN d
    ELSE DictUpdateFrom(DictSet(d, e.keys[i], e.val[e.keys[i]]), e, i + 1)

\* A faulty variant of DictUpdate: the first key of the other dict is not copied.
DictUpdateDropsFirst(d, e) == DictUpdateFrom(d, e, 2)

\* d.update(e)
DictUpdate(d, e) == DictUpdateFrom(d, e, 1)

----------------------------------------------------------------------------
(* The generated modules the server imports *)

\* Tool names, listed in the order of Python's str comparison.
ToolNames == <<"get_incidents", "xsiam_get_incidents">>

\* A name no generated module registers.
UnregisteredName == "no_such_tool"

RequestNames == {ToolNames[i] : i \in 1..Len(ToolNames)} \cup {UnregisteredName}

COMMON_INPUT_SCHEMA == <<"schema", "common">>
UNIFIED_INPUT_SCHEMA == <<"schema", "unified">>

ModuleNames == {"xsiam", "xsoar", "unified"}

SchemaOfModule(mod) ==
    IF mod = "unified" THEN UNIFIED_INPUT_SCHEMA ELSE COMMON_INPUT_SCHEMA

\* A generated module: three dicts over the same keys, in the same order.
\* The handler and the description of a tool tell which module defined it.
GeneratedModule(mod, ks) ==
    LET names == {ks[i] : i \in 1..Len(ks)}
    IN [TOOL_HANDLERS     |-> [keys |-> ks, val |-> [n \in names |-> <<"handler", mod, n>>]],
        TOOL_SCHEMAS      |-> [keys |-> ks, val |-> [n \in names |-> SchemaOfModule(mod)]],
        TOOL_DESCRIPTIONS |-> [keys |-> ks, val |-> [n \in names |-> <<"description", mod, n>>]]]

DistinctSeqs(S, n) ==
    {s \in UNION {[1..k -> S] : k \in 0..n} :
        \A i, j \in 1..Len(s) : i # j => s[i] # s[j]}

ToolKeySeqs == DistinctSeqs({ToolNames[i] : i \in 1..Len(ToolNames)}, MaxTools)

\* Python's order of str, on the tool names
StrRank == [n \in {ToolNames[i] : i \in 1..Len(ToolNames)} |->
               CHOOSE i \in 1..Len(ToolNames) : ToolNames[i] = n]

SetOfSeq(s) == {s[i] : i \in 1..Len(s)}

\* sorted(s) for a sequence without repetition, rank giving the order
SortedSeq(s, rank) ==
    [i \in 1..Len(s) |->
        CHOOSE x \in SetOfSeq(s) :
            Cardinality({y \in SetOfSeq(s) : rank[y] < rank[x]}) = i - 1]

----------------------------------------------------------------------------
(* _merge_registries *)

\* modules = [xsiam, xsoar]; if unified: modules.append(unified)
MergeModules(xm, om, um, uImported) ==
    IF uImported THEN <<xm, om, um>> ELSE <<xm, om>>

RECURSIVE MergeFrom(_, _, _)
MergeFrom(acc, modules, i) ==
    IF i > Len(modules) THEN acc
    ELSE MergeFrom(
            [handlers |-> DictUpdate(acc.handlers, modules[i].TOOL_HANDLERS),
             schemas  |-> DictUpdate(acc.schemas, modules[i].TOOL_SCHEMAS),
             descs    |-> DictUpdate(acc.descs, modules[i].TOOL_DESCRIPTIONS)],
            modules, i + 1)

_merge_registries(xm, om, um, uImported) ==
    MergeFrom([handlers |-> EmptyDict, schemas |-> EmptyDict, descs |-> EmptyDict],
              MergeModules(xm, om, um, uImported), 1)

----------------------------------------------------------------------------
(* The request handlers of run_server *)

TextContent(t) == [type |-> "text", text |-> t]

\* What a handler gives back: a returned content, or a raised exception.
Returned(op, target, content) ==
    [op |-> op, target |-> target, raised |-> FALSE, exc |-> None, content |-> content]

Raised(op, target, exc) ==
    [op |-> op, target |-> target, raised |-> TRUE, exc |-> exc, content |-> <<>>]

NoResponse == Returned("none", None, <<>>)

Request(op, target, arguments, upstream) ==
    [op |-> op, target |-> target, arguments |-> arguments, upstream |-> upstream]

NoRequest == Request("none", None, None, None)

\* A faulty variant of SortedKeys: the keys in the dict's insertion order.
UnsortedKeys(d) == d.keys

\* sorted(TOOL_HANDLERS.keys())
SortedKeys(d) == SortedSeq(d.keys, StrRank)

\* TOOL_SCHEMAS.get(name) or {"type": "object", "properties": {}}
EmptyObjectSchema == <<"schema", "empty_object">>
FalsySchema == <<"schema", "{}">>
SchemaOrDefault(sch) ==
    IF sch = None \/ sch = FalsySchema THEN EmptyObjectSchema ELSE sch

list_tools_handler(handlers, schemas, descs) ==
    LET names == SortedKeys(handlers)
    IN Returned("list_tools", None,
                [i \in 1..Len(names) |->
                    [name        |-> names[i],
                     description |-> DictGet(descs, names[i]),
                     inputSchema |-> SchemaOrDefault(DictGet(schemas, names[i]))]])

\* What the upstream API does with the one request a generated handler issues.
Upstream == {"2xx_json", "2xx_not_json", "non_2xx", "transport_failure"}

\* The arguments of a call-tool request: None, or a dict with a bucket.
Arguments == {None, <<"dict", "query">>}

\* arguments or {}
ArgumentsOrEmpty(arguments) ==
    IF arguments = None \/ arguments = <<"dict">> THEN <<"dict">> ELSE arguments

\* A generated handler: client.request, raise_for_status, response.json, return.
InvokeHandler(handler, arguments, upstream) ==
    CASE upstream = "transport_failure" ->
            [raised |-> TRUE, exc |-> "ConnectError", content |-> <<>>]
      [] upstream = "non_2xx" ->
            [raised |-> TRUE, exc |-> "HTTPStatusError", content |-> <<>>]
      [] upstream = "2xx_not_json" ->
            [raised |-> TRUE, exc |-> "JSONDecodeError", content |-> <<>>]
      [] OTHER ->
            [raised |-> FALSE, exc |-> "",
             content |-> <<TextContent(<<"result", handler, arguments>>)>>]

\* A faulty variant of CaughtByExceptException: only the HTTP status error is caught.
CaughtOnlyHTTPStatusError(exc) == exc = "HTTPStatusError"

\* except Exception: the classes deriving from Exception
CaughtByExceptException(exc) ==
    exc \in {"ConnectError", "HTTPStatusError", "JSONDecodeError", "ValueError"}

\* A faulty variant of LookupHandler: TOOL_HANDLERS[tool_name], a KeyError when missing.
LookupHandlerSubscript(handlers, tool_name) ==
    IF tool_name \in DictKeySet(handlers)
    THEN [raised |-> FALSE, exc |-> "", handler |-> handlers.val[tool_name]]
    ELSE [raised |-> TRUE, exc |-> "KeyError", handler |-> None]

\* handler = TOOL_HANDLERS.get(tool_name)
LookupHandler(handlers, tool_name) ==
    [raised |-> FALSE, exc |-> "", handler |-> DictGet(handlers, tool_name)]

call_tool_handler(handlers, tool_name, arguments, upstream) ==
    LET found == LookupHandler(handlers, tool_name)
        r == InvokeHandler(found.handler, ArgumentsOrEmpty(arguments), upstream)
    IN IF found.raised THEN Raised("call_tool", tool_name, found.exc)
       ELSE IF found.handler = None
       THEN Returned("call_tool", tool_name,
                     <<TextContent(<<"Unknown tool: ", tool_name>>)>>)
       ELSE IF ~r.raised THEN Returned("call_tool", tool_name, r.content)
       ELSE IF CaughtByExceptException(r.exc)
       THEN Returned("call_tool", tool_name, <<TextContent(<<"ERROR: ", r.exc>>)>>)
       ELSE Raised("call_tool", tool_name, r.exc)

----------------------------------------------------------------------------
(* Documentation resources *)

\* Markdown files that can be under docs_root, as paths relative to it,
\* listed in the order of their URIs.
DocFiles == <<(<<"index.md">>), (<<"xsiam", "incidents.md">>)>>

DocFileSet == SetOfSeq(DocFiles)

\* f"cortexsynapse-docs://{md.relative_to(docs_root).as_posix()}"
UriOf(path) == <<"cortexsynapse-docs://">> \o path

\* A URI no file of docs_root has.
ForeignUri == <<"cortexsynapse-docs://", "missing.md">>

RequestUris == {UriOf(f) : f \in DocFileSet} \cup {ForeignUri}

UriRank == [u \in {UriOf(f) : f \in DocFileSet} |->
               CHOOSE i \in 1..Len(DocFiles) : UriOf(DocFiles[i]) = u]

\* The disk: whether docs_root exists, and the markdown files under it.
Disks == {[exists |-> FALSE, files |-> {}]} \cup
         {[exists |-> TRUE, files |-> fs] : fs \in SUBSET DocFileSet}

\* The scan of run_server: DOCS[uri] = md for md in docs_root.rglob("*.md"),
\* order being the order in which rglob yields the files.
ScanDocs(d, order) ==
    IF d.exists
    THEN [keys |-> [i \in 1..Len(order) |-> UriOf(order[i])],
          val  |-> [u \in {UriOf(f) : f \in d.files} |->
                        CHOOSE f \in d.files : UriOf(f) = u]]
    ELSE EmptyDict

\* The orders in which rglob can yield the files of the disk.
RglobOrders(d) ==
    {o \in DistinctSeqs(d.files, Cardinality(d.files)) : Len(o) = Cardinality(d.files)}

\* A faulty variant of list_resources_handler: the listing scans docs_root
\* again instead of reading DOCS.
list_resources_handler_rescanning(docs, d) ==
    LET uris == SortedSeq(ScanDocs(d, CHOOSE o \in RglobOrders(d) : TRUE).keys, UriRank)
    IN Returned("list_resources", None,
                [i \in 1..Len(uris) |->
                    [uri         |-> uris[i],
                     description |-> uris[i][Len(uris[i])],
                     mimeType    |-> "text/markdown",
                     size        |-> <<"st_size", Tail(uris[i])>>]])

list_resources_handler(docs, d) ==
    LET uris == SortedSeq(docs.keys, UriRank)
    IN Returned("list_resources", None,
                [i \in 1..Len(uris) |->
                    LET path == docs.val[uris[i]]
                    IN [uri         |-> uris[i],
                        description |-> path[Len(path)],
                        mimeType    |-> "text/markdown",
                        size        |-> IF path \in d.files THEN <<"st_size", path>>
                                        ELSE None]])

\* A faulty variant of UnknownResource: a text result, as call tool gives for an
\* unknown tool.
UnknownResourceSoft(uri) ==
    Returned("read_resource", uri, <<TextContent(<<"Unknown resource: ", uri>>)>>)

\* raise ValueError(f"Unknown resource: {uri}")
UnknownResource(uri) == Raised("read_resource", uri, "ValueError")

read_resource_handler(docs, d, uri) ==
    LET path == DictGet(docs, uri)
    IN IF path = None THEN UnknownResource(uri)
       ELSE IF path \notin d.files THEN Raised("read_resource", uri, "FileNotFoundError")
       ELSE Returned("read_resource", uri,
                     <<[content |-> <<"text of", path>>, mime_type |-> "text/markdown"]>>)

----------------------------------------------------------------------------
(* to_snake_case *)

UpperCase == <<"A", "B", "C", "D", "E", "F", "G", "H", "I", "J", "K", "L", "M",
               "N", "O", "P", "Q", "R", "S", "T", "U", "V", "W", "X", "Y", "Z">>
LowerCase == <<"a", "b", "c", "d", "e", "f", "g", "h", "i", "j", "k", "l", "m",
               "n", "o", "p", "q", "r", "s", "t", "u", "v", "w", "x", "y", "z">>
Digits == {"0", "1", "2", "3", "4", "5", "6", "7", "8", "9"}

\* the regular expression classes [A-Z], [a-z], [a-z0-9] and .
IsUpper(c) == c \in SetOfSeq(UpperCase)
IsLower(c) == c \in SetOfSeq(LowerCase)
IsLowerOrDigit(c) == IsLower(c) \/ c \in Digits
IsDot(c) == c # "\n"

\* str.lower() on one character
LowerChar(c) ==
    IF IsUpper(c) THEN LowerCase[CHOOSE i \in 1..Len(UpperCase) : UpperCase[i] = c]
    ELSE c

\* str.lower()
Lower(s) == [i \in 1..Len(s) |-> LowerChar(s[i])]

\* the end of the longest run of [a-z] that starts at j
RECURSIVE LowerRunEnd(_, _)
LowerRunEnd(s, j) ==
    IF j + 1 <= Len(s) /\ IsLower(s[j + 1]) THEN LowerRunEnd(s, j + 1) ELSE j

\* (.)([A-Z][a-z]+) matches at i
Match1(s, i) ==
    /\ i + 2 <= Len(s)
    /\ IsDot(s[i])
    /\ IsUpper(s[i + 1])
    /\ IsLower(s[i + 2])

\* re.sub("(.)([A-Z][a-z]+)", r"\1_\2", s), from position i on: the matches
\* are taken left to right and do not overlap
RECURSIVE Sub1(_, _)
Sub1(s, i) ==
    IF i > Len(s) THEN <<>>
    ELSE IF Match1(s, i)
    THEN LET e == LowerRunEnd(s, i + 2)
         IN <<s[i], "_">> \o SubSeq(s, i + 1, e) \o Sub1(s, e + 1)
    ELSE <<s[i]>> \o Sub1(s, i + 1)

\* ([a-z0-9])([A-Z]) matches at i
Match2(s, i) ==
    /\ i + 1 <= Len(s)
    /\ IsLowerOrDigit(s[i])
    /\ IsUpper(s[i + 1])

\* re.sub("([a-z0-9])([A-Z])", r"\1_\2", s), from position i on
RECURSIVE Sub2(_, _)
Sub2(s, i) ==
    IF i > Len(s) THEN <<>>
    ELSE IF Match2(s, i)
    THEN <<s[i], "_", s[i + 1]>> \o Sub2(s, i + 2)
    ELSE <<s[i]>> \o Sub2(s, i + 1)

\* A faulty variant of to_snake_case: the result is not lowercased.
to_snake_case_without_lower(x) == Sub2(Sub1(x, 1), 1)

to_snake_case(x) == Lower(Sub2(Sub1(x, 1), 1))

\* Characters of the enumerated arguments: a lowercase and an uppercase
\* letter, a digit, the separators and the underscore.
SnakeAlphabet == {"a", "A", "2", "-", "/", " ", "_"}

\* The names of test_to_snake_case_handles_mixed_names.
ListIncidents == <<"L", "i", "s", "t", "I", "n", "c", "i", "d", "e", "n", "t", "s">>
CreateWidgetItem == <<"c", "r", "e", "a", "t", "e", "-", "W", "i", "d", "g", "e", "t", "/", "I", "t", "e", "m">>
HTTPResponse2XX == <<"H", "T", "T", "P", "R", "e", "s", "p", "o", "n", "s", "e", "2", "X", "X">>

SnakeInputs ==
    UNION {[1..k -> SnakeAlphabet] : k \in 0..MaxLen}
        \cup {ListIncidents, CreateWidgetItem, HTTPResponse2XX}

SnakeIdle ==
    /\ name = <<>>
    /\ snake1 = <<>>
    /\ snake2 = <<>>
    /\ pcSnake = "idle"

----------------------------------------------------------------------------
(* Platform tool-file generator: find_operation_in_spec and                *)
(* generate_platform_tools_file, as the specification and                  *)
(* tests/test_codegen.py describe them.                                    *)
(* A whitelist key and a tool name are the sequence of the words that      *)
(* underscores join: "xsiam_list_items" is <<"xsiam", "list", "items">>.   *)

Platforms == {"xsiam", "xsoar"}

\* The whitelist keys of a platform: two plain keys and one that already
\* carries the platform.
WhitelistKeys(p) == {<<"list", "items">>, <<"run", "playbook">>, <<p, "get", "item">>}

Routes == {"/items", "/missing"}
Methods == {"GET", "get", "POST"}
Descriptions == {"Return all items", "Fetch one item"}

\* method.lower() and method.upper()
MethodLower(m) == IF m \in {"GET", "get"} THEN "get" ELSE "post"
MethodUpper(m) == IF m \in {"GET", "get"} THEN "GET" ELSE "POST"

WhitelistEntries ==
    [route : Routes, method : Methods, description : Descriptions]

\* The operations an OpenAPI document can declare: paths[route][method].
SpecOperations == {<<"/items", "get">>, <<"/items", "post">>, <<"/other", "get">>}

\* A faulty variant of find_operation_in_spec: the method is compared as written.
find_operation_case_sensitive(spec, route, method) ==
    IF <<route, method>> \in spec
    THEN <<"operation", route, MethodUpper(method)>>
    ELSE None

\* find_operation_in_spec: exact route, method compared in lowercase; the
\* operation with its method in uppercase, or None
find_operation_in_spec(spec, route, method) ==
    IF <<route, MethodLower(method)>> \in spec
    THEN <<"operation", route, MethodUpper(method)>>
    ELSE None

\* key.startswith(f"{platform}_")
IsPlatformQualified(p, key) == Len(key) > 1 /\ key[1] = p

\* A faulty variant of PlatformToolName: the platform is always prefixed.
PlatformToolNameAlwaysPrefixed(p, key) == <<p>> \o key

\* The tool name of a whitelist key
PlatformToolName(p, key) ==
    IF IsPlatformQualified(p, key) THEN key ELSE <<p>> \o key

EmptyRegistry ==
    [TOOL_HANDLERS |-> EmptyDict, TOOL_SCHEMAS |-> EmptyDict,
     TOOL_DESCRIPTIONS |-> EmptyDict]

\* The loop of generate_platform_tools_file over the whitelist entries, from
\* entry i on: an unresolved entry is reported and skipped, a resolved one
\* is registered.
RECURSIVE GenerateFrom(_, _, _, _, _)
GenerateFrom(acc, wl, spec, p, i) ==
    IF i > Len(wl) THEN acc
    ELSE LET key == wl[i][1]
             entry == wl[i][2]
             op == find_operation_in_spec(spec, entry.route, entry.method)
             tool == PlatformToolName(p, key)
         IN IF op = None
            THEN GenerateFrom([acc EXCEPT !.skipped = Append(@, key)], wl, spec, p, i + 1)
            ELSE GenerateFrom(
                    [acc EXCEPT
                        !.registry.TOOL_HANDLERS = DictSet(@, tool, <<"handler", op>>),
                        !.registry.TOOL_SCHEMAS = DictSet(@, tool, COMMON_INPUT_SCHEMA),
                        !.registry.TOOL_DESCRIPTIONS = DictSet(@, tool, entry.description)],
                    wl, spec, p, i + 1)

generate_platform_tools_file(wl, spec, p) ==
    GenerateFrom([registry |-> EmptyRegistry, skipped |-> <<>>], wl, spec, p, 1)

\* The whitelists of a platform: up to MaxEntries entries with distinct keys.
Whitelists(p) ==
    {wl \in UNION {[1..k -> WhitelistKeys(p) \X WhitelistEntries] : k \in 0..MaxEntries} :
        \A i, j \in 1..Len(wl) : i # j => wl[i][1] # wl[j][1]}

GenIdle ==
    /\ whitelist = <<>>
    /\ openapi = {}
    /\ platform = "xsiam"
    /\ generated = EmptyRegistry
    /\ diagnostics = <<>>
    /\ pcGen = "idle"

----------------------------------------------------------------------------
(* The server as a state machine *)

NoModule == GeneratedModule("unified", <<>>)

Init ==
    /\ state = "uninitialized"
    /\ \E ks \in ToolKeySeqs : xsiam = GeneratedModule("xsiam", ks)
    /\ \E ks \in ToolKeySeqs : xsoar = GeneratedModule("xsoar", ks)
    /\ unifiedImported \in BOOLEAN
    /\ IF unifiedImported
       THEN \E ks \in ToolKeySeqs : unified = GeneratedModule("unified", ks)
       ELSE unified = NoModule
    /\ TOOL_HANDLERS = EmptyDict
    /\ TOOL_SCHEMAS = EmptyDict
    /\ TOOL_DESCRIPTIONS = EmptyDict
    /\ DOCS = EmptyDict
    /\ disk \in Disks
    /\ request = NoRequest
    /\ response = NoResponse
    /\ SnakeIdle
    /\ GenIdle
    /\ LateIdle

\* run_server up to the point where it serves: merge, then scan the docs.
run_server ==
    /\ state = "uninitialized"
    /\ LET m == _merge_registries(xsiam, xsoar, unified, unifiedImported)
       IN /\ TOOL_HANDLERS' = m.handlers
          /\ TOOL_SCHEMAS' = m.schemas
          /\ TOOL_DESCRIPTIONS' = m.descs
    /\ \E order \in RglobOrders(disk) : DOCS' = ScanDocs(disk, order)
    /\ state' = "serving"
    /\ UNCHANGED <<xsiam, xsoar, unified, unifiedImported, disk, request, response>>
    /\ UNCHANGED <<snakeVars, genVars, lateVars>>

ServerFrame ==
    UNCHANGED <<state, xsiam, xsoar, unified, unifiedImported, TOOL_HANDLERS,
                TOOL_SCHEMAS, TOOL_DESCRIPTIONS, DOCS, disk, snakeVars, genVars, lateVars>>

ListTools ==
    /\ state = "serving"
    /\ request' = Request("list_tools", None, None, None)
    /\ response' = list_tools_handler(TOOL_HANDLERS, TOOL_SCHEMAS, TOOL_DESCRIPTIONS)
    /\ ServerFrame

CallTool ==
    /\ state = "serving"
    /\ \E tool_name \in RequestNames, arguments \in Arguments, upstream \in Upstream :
          /\ request' = Request("call_tool", tool_name, arguments, upstream)
          /\ response' = call_tool_handler(TOOL_HANDLERS, tool_name, arguments, upstream)
    /\ ServerFrame

ListResources ==
    /\ state = "serving"
    /\ request' = Request("list_resources", None, None, None)
    /\ response' = list_resources_handler(DOCS, disk)
    /\ ServerFrame

ReadResource ==
    /\ state = "serving"
    /\ \E uri \in RequestUris :
          /\ request' = Request("read_resource", uri, None, None)
          /\ response' = read_resource_handler(DOCS, disk, uri)
    /\ ServerFrame

\* The environment: a markdown file is written under docs_root while serving.
AddMarkdownFile ==
    /\ state = "serving"
    /\ \E f \in DocFileSet \ disk.files :
          disk' = [exists |-> TRUE, files |-> disk.files \cup {f}]
    /\ UNCHANGED <<state, xsiam, xsoar, unified, unifiedImported, TOOL_HANDLERS,
                   TOOL_SCHEMAS, TOOL_DESCRIPTIONS, DOCS, request, response>>
    /\ UNCHANGED <<snakeVars, genVars, lateVars>>

Next ==
    \/ run_server
    \/ ListTools
    \/ CallTool
    \/ ListResources
    \/ ReadResource
    \/ AddMarkdownFile

Spec == Init /\ [][Next]_vars

----------------------------------------------------------------------------
(* The name normalizer, applied once and then to its own result *)

ServerIdle ==
    /\ state = "uninitialized"
    /\ xsiam = NoModule
    /\ xsoar = NoModule
    /\ unified = NoModule
    /\ unifiedImported = FALSE
    /\ TOOL_HANDLERS = EmptyDict
    /\ TOOL_SCHEMAS = EmptyDict
    /\ TOOL_DESCRIPTIONS = EmptyDict
    /\ DOCS = EmptyDict
    /\ disk = [exists |-> FALSE, files |-> {}]
    /\ request = NoRequest
    /\ response = NoResponse

InitSnake ==
    /\ ServerIdle
    /\ GenIdle
    /\ LateIdle
    /\ name \in SnakeInputs
    /\ snake1 = <<>>
    /\ snake2 = <<>>
    /\ pcSnake = "start"

Normalize ==
    /\ pcSnake = "start"
    /\ snake1' = to_snake_case(name)
    /\ pcSnake' = "once"
    /\ UNCHANGED <<name, snake2, serverVars, genVars, lateVars>>

Renormalize ==
    /\ pcSnake = "once"
    /\ snake2' = to_snake_case(snake1)
    /\ pcSnake' = "twice"
    /\ UNCHANGED <<name, snake1, serverVars, genVars, lateVars>>

NextSnake ==
    \/ Normalize
    \/ Renormalize

SpecSnake == InitSnake /\ [][NextSnake]_vars

----------------------------------------------------------------------------
(* One run of the platform generator *)

InitGen ==
    /\ ServerIdle
    /\ SnakeIdle
    /\ LateIdle
    /\ platform \in Platforms
    /\ whitelist \in Whitelists(platform)
    /\ openapi \in SUBSET SpecOperations
    /\ generated = EmptyRegistry
    /\ diagnostics = <<>>
    /\ pcGen = "start"

GeneratePlatformTools ==
    /\ pcGen = "start"
    /\ LET out == generate_platform_tools_file(whitelist, openapi, platform)
       IN /\ generated' = out.registry
          /\ diagnostics' = out.skipped
    /\ pcGen' = "done"
    /\ UNCHANGED <<whitelist, openapi, platform, serverVars, snakeVars, lateVars>>

NextGen == GeneratePlatformTools

SpecGen == InitGen /\ [][NextGen]_vars

----------------------------------------------------------------------------
(* Claims about the runtime server *)

\* The source modules run_server merges, in merge order.
Sources == MergeModules(xsiam, xsoar, unified, unifiedImported)

SourceNames(i) == DictKeySet(Sources[i].TOOL_HANDLERS)

\* Some tool name is defined by two source modules.
Collision ==
    \E i, j \in 1..Len(Sources) : i < j /\ SourceNames(i) \cap SourceNames(j) # {}

\* C1: while serving, a call-tool request for a name that is no key of the
\* merged handlers returns one text content naming the tool as unknown, and
\* does not raise, whatever the name, the arguments and the upstream.
C1_UnknownToolIsSoftResult ==
    (state = "serving" /\ request.op = "call_tool"
        /\ request.target \notin DictKeySet(TOOL_HANDLERS))
    => /\ ~response.raised
       /\ response.content = <<TextContent(<<"Unknown tool: ", request.target>>)>>

\* C1 witness: a tool name some registry could hold, but the merged one does
\* not, was called with arguments while other tools are registered.
C1_Witness ==
    /\ state = "serving" /\ request.op = "call_tool"
    /\ request.target \in SetOfSeq(ToolNames)
    /\ request.target \notin DictKeySet(TOOL_HANDLERS)
    /\ DictKeySet(TOOL_HANDLERS) # {}
    /\ request.arguments # None
    /\ ~response.raised

\* C2: for a registered tool whose handler raises (non-2xx response,
\* transport failure, undecodable body), call tool returns one text content
\* prefixed "ERROR: " and does not raise; the server is still serving and
\* can take a further list-tools and call-tool request.
C2_HandlerExceptionIsCaught ==
    (request.op = "call_tool" /\ request.target \in DictKeySet(TOOL_HANDLERS)
        /\ request.upstream # "2xx_json")
    => /\ ~response.raised
       /\ Len(response.content) = 1
       /\ response.content[1].type = "text"
       /\ response.content[1].text[1] = "ERROR: "
       /\ state = "serving"
       /\ ENABLED ListTools
       /\ ENABLED CallTool

\* C2 witness: a registered tool was called and the upstream transport failed.
C2_Witness ==
    /\ request.op = "call_tool" /\ request.target \in DictKeySet(TOOL_HANDLERS)
    /\ request.upstream = "transport_failure"
    /\ response.content = <<TextContent(<<"ERROR: ", "ConnectError">>)>>

\* C3 (the claim as stated): when two sources define the same tool name the
\* server does not come to serve with the later source's entry in place of
\* the earlier one's: the collision is surfaced instead.
C3_NoSilentShadowing ==
    state = "serving" =>
        \A i, j \in 1..Len(Sources) : \A n \in SourceNames(i) \cap SourceNames(j) :
            i < j =>
                /\ DictGet(TOOL_HANDLERS, n) # Sources[j].TOOL_HANDLERS.val[n]
                /\ DictGet(TOOL_DESCRIPTIONS, n) # Sources[j].TOOL_DESCRIPTIONS.val[n]

\* C4: the merged handlers, schemas and descriptions have the same keys, and
\* there are as many merged tools as distinct tool names in the sources.
C4_MergedKeySets ==
    state = "serving" =>
        /\ DictKeySet(TOOL_HANDLERS) = DictKeySet(TOOL_SCHEMAS)
        /\ DictKeySet(TOOL_HANDLERS) = DictKeySet(TOOL_DESCRIPTIONS)
        /\ SetOfSeq(TOOL_HANDLERS.keys) = DictKeySet(TOOL_HANDLERS)
        /\ Len(TOOL_HANDLERS.keys) =
              Cardinality(UNION {SourceNames(i) : i \in 1..Len(Sources)})

\* C4 witness: three sources were merged, two of them sharing a name.
C4_Witness ==
    /\ state = "serving" /\ unifiedImported /\ Collision
    /\ Len(TOOL_HANDLERS.keys) = 2
    /\ \A i \in 1..Len(Sources) : SourceNames(i) # {}

\* The listing of the last list-tools request is the merged registry, sorted.
C5_Listing ==
    request.op = "list_tools" =>
        /\ ~response.raised
        /\ Len(response.content) = Cardinality(DictKeySet(TOOL_HANDLERS))
        /\ {response.content[i].name : i \in 1..Len(response.content)}
              = DictKeySet(TOOL_HANDLERS)
        /\ \A i, j \in 1..Len(response.content) :
              i < j => StrRank[response.content[i].name] < StrRank[response.content[j].name]
        /\ \A i \in 1..Len(response.content) :
              LET t == response.content[i]
              IN /\ t.description = TOOL_DESCRIPTIONS.val[t.name]
                 /\ t.inputSchema = TOOL_SCHEMAS.val[t.name]

\* C5: list tools returns one entry per merged tool name and no other, in
\* ascending order of name, each with the registered description and input
\* schema, and the request leaves the registry, the resources and the
\* serving state as they were.
C5_ListToolsIsSortedRegistry ==
    /\ []C5_Listing
    /\ [][ListTools => UNCHANGED <<state, TOOL_HANDLERS, TOOL_SCHEMAS,
                                    TOOL_DESCRIPTIONS, DOCS, xsiam, xsoar, unified>>]_vars

\* C5 witness: two tools were listed, registered in descending order of name.
C5_Witness ==
    /\ request.op = "list_tools"
    /\ Len(response.content) = 2
    /\ TOOL_HANDLERS.keys = <<ToolNames[2], ToolNames[1]>>
    /\ response.content[1].name = ToolNames[1]
    /\ response.content[1].inputSchema # response.content[2].inputSchema

\* C6: a read-resource request for a URI that run_server did not register
\* raises (a ValueError) and returns no content.
C6_UnknownResourceRaises ==
    (request.op = "read_resource" /\ request.target \notin DictKeySet(DOCS))
    => /\ response.raised
       /\ response.exc = "ValueError"
       /\ response.content = <<>>

\* C6 witness: the URI of a file written after startup was read while
\* another URI is registered.
C6_Witness ==
    /\ request.op = "read_resource"
    /\ request.target \notin DictKeySet(DOCS)
    /\ DictKeySet(DOCS) # {}
    /\ \E f \in disk.files : request.target = UriOf(f)
    /\ response.raised

----------------------------------------------------------------------------
(* Claims about the name normalizer *)

IsString(s) == s \in Seq(SetOfSeq(UpperCase) \cup SetOfSeq(LowerCase) \cup Digits
                            \cup {"-", "/", " ", "_"})

\* C7: to_snake_case returns a string for every argument, and applying it to
\* its own result gives that result again.
C7_SnakeCaseIdempotent ==
    /\ pcSnake \in {"once", "twice"} => IsString(snake1)
    /\ pcSnake = "twice" => IsString(snake2) /\ snake2 = snake1

\* C7 witness: a name with a case boundary was normalized twice, and the
\* first pass changed it.
C7_Witness ==
    /\ pcSnake = "twice"
    /\ \E i \in 1..Len(name) : Match1(name, i)
    /\ snake1 # name
    /\ snake2 = snake1

OnlyLettersDigitsSeparators(s) ==
    \A i \in 1..Len(s) :
        IsUpper(s[i]) \/ IsLowerOrDigit(s[i]) \/ s[i] \in {"-", "/", " "}

OnlyLowerDigitsUnderscore(s) ==
    \A i \in 1..Len(s) : IsLowerOrDigit(s[i]) \/ s[i] = "_"

\* C8 (the claim as stated): for a name of letters, digits and the
\* separators '-', '/' and space, the result holds only lowercase letters,
\* digits and underscores, and the three names of the test give
\* list_incidents, create_widget_item and http_response2_xx.
C8_SeparatorsBecomeUnderscores ==
    (pcSnake \in {"once", "twice"} /\ OnlyLettersDigitsSeparators(name))
    => /\ OnlyLowerDigitsUnderscore(snake1)
       /\ name = ListIncidents => snake1 = <<"l", "i", "s", "t", "_", "i", "n", "c", "i", "d", "e", "n", "t", "s">>
       /\ name = CreateWidgetItem => snake1 = <<"c", "r", "e", "a", "t", "e", "_", "w", "i", "d", "g", "e", "t", "_", "i", "t", "e", "m">>
       /\ name = HTTPResponse2XX => snake1 = <<"h", "t", "t", "p", "_", "r", "e", "s", "p", "o", "n", "s", "e", "2", "_", "x", "x">>

----------------------------------------------------------------------------
(* Claims about the platform generator *)

WhitelistKeysOf(wl) == {wl[i][1] : i \in 1..Len(wl)}

Resolves(entry) == <<entry.route, MethodLower(entry.method)>> \in openapi

----------------------------------------------------------------------------
(* A unified tool's handler, as the specification (4.4) and                *)
(* test_generate_unified_tools_file_builds_registry describe it.           *)

UnifiedPlatforms == {"xsoar", "xsiam"}

\* A binding is <<route, method>>, or None when the entry has none for the
\* platform.
XsoarBindings ==
    {None, <<"/incidents/search", "POST">>, <<"/incidents/search", "GET">>,
     <<"/incident/batch", "POST">>}
XsiamBindings ==
    {None, <<"/public_api/v1/incidents/get_incidents", "POST">>,
     <<"/incidents/search", "POST">>, <<"/public_api/v1/incidents/update_incident", "POST">>}

UnifiedEntries == [xsoar : XsoarBindings, xsiam : XsiamBindings]

\* arguments.get("platform"): None, or <<value>>
PlatformArguments == {None, <<"xsoar">>, <<"xsiam">>, <<"xdr">>}

BindingOf(entry, p) == IF p = "xsoar" THEN entry.xsoar ELSE entry.xsiam

UnifiedFailure(exc) == [failed |-> TRUE, exc |-> exc, issued |-> <<>>]

\* The request of a binding, and how the call ends with the upstream's answer.
UnifiedRequest(binding, upstream) ==
    [failed |-> upstream # "2xx_json",
     exc    |-> InvokeHandler(binding, <<"dict">>, upstream).exc,
     issued |-> <<[route |-> binding[1], method |-> binding[2]]>>]

\* A faulty variant of unified_handler: without a platform the xsoar binding
\* is taken.
unified_handler_default_xsoar(entry, platformArg, upstream) ==
    LET p == IF platformArg = None THEN "xsoar" ELSE platformArg[1]
    IN IF p \notin UnifiedPlatforms THEN UnifiedFailure("ValueError")
       ELSE IF BindingOf(entry, p) = None THEN UnifiedFailure("ValueError")
       ELSE UnifiedRequest(BindingOf(entry, p), upstream)

\* The handler of a unified tool: the platform selects the binding; no
\* platform, another platform or no binding fails the call before any request.
unified_handler(entry, platformArg, upstream) ==
    IF platformArg = None THEN UnifiedFailure("ValueError")
    ELSE IF platformArg[1] \notin UnifiedPlatforms THEN UnifiedFailure("ValueError")
    ELSE IF BindingOf(entry, platformArg[1]) = None THEN UnifiedFailure("ValueError")
    ELSE UnifiedRequest(BindingOf(entry, platformArg[1]), upstream)

OthersIdleUnified ==
    ServerIdle /\ SnakeIdle /\ GenIdle /\ HandlerIdle /\ MainIdle /\ DocsIdle /\ ConcIdle

InitUnified ==
    /\ OthersIdleUnified
    /\ uEntry \in UnifiedEntries
    /\ uPlatform \in PlatformArguments
    /\ uIssued = <<>>
    /\ uResult = <<>>
    /\ pcUnified = "start"

CallUnifiedTool ==
    /\ pcUnified = "start"
    /\ \E upstream \in Upstream :
          LET r == unified_handler(uEntry, uPlatform, upstream)
          IN /\ uIssued' = r.issued
             /\ uResult' = [failed |-> r.failed, exc |-> r.exc]
    /\ pcUnified' = "done"
    /\ UNCHANGED <<uEntry, uPlatform, serverVars, snakeVars, genVars,
                   handlerVars, mainVars, docsVars, concVars>>

NextUnified == CallUnifiedTool

SpecUnified == InitUnified /\ [][NextUnified]_vars

\* C11: with both bindings, platform "xsoar" issues the one request to the
\* xsoar route and method and platform "xsiam" to the xsiam ones; a call
\* with no platform, with another platform, or for a platform the entry does
\* not bind, fails and issues no request.
C11_PlatformSelectsBinding ==
    pcUnified = "done" =>
        /\ (uEntry.xsoar # None /\ uEntry.xsiam # None /\ uPlatform = <<"xsoar">>)
              => uIssued = <<[route |-> uEntry.xsoar[1], method |-> uEntry.xsoar[2]]>>
        /\ (uEntry.xsoar # None /\ uEntry.xsiam # None /\ uPlatform = <<"xsiam">>)
              => uIssued = <<[route |-> uEntry.xsiam[1], method |-> uEntry.xsiam[2]]>>
        /\ (\/ uPlatform \in {None, <<"xdr">>}
            \/ (uPlatform = <<"xsoar">> /\ uEntry.xsoar = None)
            \/ (uPlatform = <<"xsiam">> /\ uEntry.xsiam = None))
              => uResult.failed /\ uIssued = <<>>

\* C11 witness: the entry of the test, with two different bindings, was
\* called with platform "xsiam" and the request went to the xsiam route.
C11_Witness ==
    /\ pcUnified = "done"
    /\ uEntry = [xsoar |-> <<"/incidents/search", "POST">>,
                 xsiam |-> <<"/public_api/v1/incidents/get_incidents", "POST">>]
    /\ uPlatform = <<"xsiam">>
    /\ uIssued = <<[route |-> "/public_api/v1/incidents/get_incidents", method |-> "POST"]>>
    /\ ~uResult.failed

----------------------------------------------------------------------------
(* Claim about what serving leaves alone *)

ListedUris == {response.content[i].uri : i \in 1..Len(response.content)}

ListedNames == {response.content[i].name : i \in 1..Len(response.content)}

\* C12: while serving, no step (a request of any kind, or a markdown file
\* written under docs_root) changes the merged registry or the registered
\* resources, and what list tools and list resources return is the registry
\* and the resources of startup.
C12_ServingMutatesNothing ==
    /\ [][state = "serving" =>
            UNCHANGED <<TOOL_HANDLERS, TOOL_SCHEMAS, TOOL_DESCRIPTIONS, DOCS>>]_vars
    /\ [](request.op = "list_tools" => ListedNames = DictKeySet(TOOL_HANDLERS))
    /\ [](request.op = "list_resources" => ListedUris = DictKeySet(DOCS))

\* C12 witness: a markdown file was written after startup, and the listing
\* of resources that followed does not hold it.
C12_Witness ==
    /\ state = "serving"
    /\ request.op = "list_resources"
    /\ Len(response.content) = 1
    /\ Cardinality(disk.files) = 2
    /\ response.content[1].size # None
    /\ DictKeySet(TOOL_HANDLERS) # {}

----------------------------------------------------------------------------
(* The handler generate_tool_function emits for one operation, and a call  *)
(* of it.  A route template is a sequence of segments: <<"lit", text>> or  *)
(* <<"ph", name>> for the placeholder {name}; substitution turns a         *)
(* placeholder into <<"val", value>>.                                      *)

\* most parameters an operation declares
MaxParams == 2

\* The wire names of the declared parameters: id, itemId, limit.
ParamNames == {<<"i", "d">>, <<"i", "t", "e", "m", "I", "d">>, <<"l", "i", "m", "i", "t">>}

ParamLocations == {"path", "query", "header"}

DeclaredParams == [name : ParamNames, in : ParamLocations, required : BOOLEAN]

\* The parameter lists of an operation: wire names are distinct.
ParamLists ==
    {ps \in UNION {[1..k -> DeclaredParams] : k \in 0..MaxParams} :
        \A i, j \in 1..Len(ps) : i # j => ps[i].name # ps[j].name}

Placeholder(n) == <<"ph", n>>

\* /items, /items/{id} and /items/{id}/sub/{itemId}
RouteTemplates ==
    {<<(<<"lit", "/items">>)>>,
     <<(<<"lit", "/items/">>), Placeholder(<<"i", "d">>)>>,
     <<(<<"lit", "/items/">>), Placeholder(<<"i", "d">>), (<<"lit", "/sub/">>),
       Placeholder(<<"i", "t", "e", "m", "I", "d">>)>>}

\* A value an argument can have; None when the argument is not given.
ArgValues == {None, <<"7">>}

\* The Python name of a declared parameter
ArgName(p) == to_snake_case(p.name)

\* The generated function is valid Python: every "if ... is not None:" has
\* a body (the location is path or query), no parameter without default
\* follows one with a default, and no two parameters have the same name.
SourceCompiles(ps) ==
    /\ \A i \in 1..Len(ps) : ps[i].in \in {"path", "query"}
    /\ \A i, j \in 1..Len(ps) : i < j => ~(~ps[i].required /\ ps[j].required)
    /\ \A i, j \in 1..Len(ps) : i # j => ArgName(ps[i]) # ArgName(ps[j])

\* path_params and params: the arguments that are not None, by location,
\* under the wire name
Bucket(ps, args, loc) ==
    {<<ps[i].name, args[ArgName(ps[i])]>> :
        i \in {k \in 1..Len(ps) : ps[k].in = loc /\ args[ArgName(ps[k])] # None}}

\* url.replace("{" + key + "}", str(value)) for every item of path_params
SubstituteUrl(route, path_params) ==
    [i \in 1..Len(route) |->
        IF route[i][1] = "ph" /\ \E kv \in path_params : kv[1] = route[i][2]
        THEN <<"val", (CHOOSE kv \in path_params : kv[1] = route[i][2])[2]>>
        ELSE route[i]]

HasPlaceholder(url) == \E i \in 1..Len(url) : url[i][1] = "ph"

\* client.request(method=..., url=url, params=params, json=None)
BuildRequests(url, params) ==
    <<[method |-> "GET", url |-> url, params |-> params]>>

\* The headers of the request: client.request is given none.
RequestHeaders(req) == {}

NotLoaded ==
    [compiled |-> FALSE, path_params |-> {}, params |-> {}, url |-> <<>>,
     issued |-> <<>>, raised |-> TRUE, exc |-> "SyntaxError"]

\* A call of the generated handler with the arguments args.
generated_handler(ps, route, args, upstream) ==
    IF ~SourceCompiles(ps) THEN NotLoaded
    ELSE LET path_params == Bucket(ps, args, "path")
             params == Bucket(ps, args, "query")
             url == SubstituteUrl(route, path_params)
             issued == BuildRequests(url, params)
             r == InvokeHandler(<<"handler">>, <<"dict">>, upstream)
         IN [compiled |-> TRUE, path_params |-> path_params, params |-> params,
             url |-> url, issued |-> issued,
             raised |-> r.raised, exc |-> r.exc]

OthersIdleHandler ==
    ServerIdle /\ SnakeIdle /\ GenIdle /\ UnifiedIdle /\ MainIdle /\ DocsIdle /\ ConcIdle

InitHandler ==
    /\ OthersIdleHandler
    /\ hParams \in ParamLists
    /\ hRoute \in RouteTemplates
    /\ hArgs \in [{ArgName(hParams[i]) : i \in 1..Len(hParams)} -> ArgValues]
    /\ hOut = <<>>
    /\ pcHandler = "start"

CallGeneratedHandler ==
    /\ pcHandler = "start"
    /\ \E upstream \in Upstream :
          hOut' = generated_handler(hParams, hRoute, hArgs, upstream)
    /\ pcHandler' = "done"
    /\ UNCHANGED <<hParams, hRoute, hArgs, serverVars, snakeVars, genVars,
                   unifiedVars, mainVars, docsVars, concVars>>

NextHandler == CallGeneratedHandler

SpecHandler == InitHandler /\ [][NextHandler]_vars

\* C13 (the claim as stated): when the URL still holds a {name} placeholder
\* after the substitution from the path bucket, the call fails and issues no
\* request; no request is issued to a URL with a placeholder in it.
C13_UnresolvedPlaceholderFails ==
    (pcHandler = "done" /\ hOut.compiled) =>
        /\ HasPlaceholder(SubstituteUrl(hRoute, hOut.path_params))
              => hOut.raised /\ hOut.issued = <<>>
        /\ \A i \in 1..Len(hOut.issued) : ~HasPlaceholder(hOut.issued[i].url)

BucketOfRequest(loc) ==
    CASE loc = "path" -> hOut.path_params
      [] loc = "query" -> IF hOut.issued = <<>> THEN {} ELSE hOut.issued[1].params
      [] OTHER -> IF hOut.issued = <<>> THEN {} ELSE RequestHeaders(hOut.issued[1])

\* C14 (the claim as stated): every declared parameter whose argument is not
\* None is in the bucket of its declared location (path, query or header)
\* under its wire name, and an argument that is None is in no bucket.
C14_ArgumentsReachTheirBucket ==
    pcHandler = "done" =>
        \A i \in 1..Len(hParams) :
            LET p == hParams[i]
                v == hArgs[ArgName(p)]
            IN /\ v # None => <<p.name, v>> \in BucketOfRequest(p.in)
               /\ v = None =>
                    \A loc \in ParamLocations :
                        \A kv \in BucketOfRequest(loc) : kv[1] # p.name

----------------------------------------------------------------------------
(* main of the generator: one generation run over the spec files of the    *)
(* specs directory.                                                        *)

\* most spec files in the specs directory
MaxSpecFiles == 3

SpecFileNames == {"xsiam", "xsoar", "unified"}

\* A spec file: its stem, and whether yaml.safe_load and the reading of the
\* document succeed on it.
SpecFiles == [name : SpecFileNames, wellFormed : BOOLEAN]

\* What glob returns: the files of the directory, each once, in any order.
SpecFileLists ==
    {fs \in UNION {[1..k -> SpecFiles] : k \in 0..MaxSpecFiles} :
        \A i, j \in 1..Len(fs) : i # j => fs[i].name # fs[j].name}

\* generate_tools_file: the artifact is written, or the exception of the
\* load leaves the function before the write.
generate_tools_file(file, artifacts) ==
    IF file.wellFormed
    THEN [raised |-> FALSE, written |-> artifacts \cup {file.name}]
    ELSE [raised |-> TRUE, written |-> artifacts]

OthersIdleMain ==
    ServerIdle /\ SnakeIdle /\ GenIdle /\ UnifiedIdle /\ HandlerIdle /\ DocsIdle /\ ConcIdle

InitMain ==
    /\ OthersIdleMain
    /\ spec_files \in SpecFileLists
    /\ mIndex = 0
    /\ written = {}
    /\ pcMain = "start"

MainFrame ==
    UNCHANGED <<spec_files, serverVars, snakeVars, genVars, unifiedVars,
                handlerVars, docsVars, concVars>>

\* if not spec_files: return
StartMain ==
    /\ pcMain = "start"
    /\ pcMain' = IF spec_files = <<>> THEN "done" ELSE "loop"
    /\ UNCHANGED <<mIndex, written>>
    /\ MainFrame

\* One turn of the loop whose generate_tools_file returns.
ProcessSpecFile ==
    /\ pcMain = "loop"
    /\ mIndex < Len(spec_files)
    /\ LET r == generate_tools_file(spec_files[mIndex + 1], written)
       IN /\ ~r.raised
          /\ written' = r.written
    /\ mIndex' = mIndex + 1
    /\ UNCHANGED pcMain
    /\ MainFrame

\* One turn of the loop whose generate_tools_file raises: nothing in main
\* catches the exception, the run ends there.
FailOnMalformed ==
    /\ pcMain = "loop"
    /\ mIndex < Len(spec_files)
    /\ generate_tools_file(spec_files[mIndex + 1], written).raised
    /\ pcMain' = "aborted"
    /\ UNCHANGED <<mIndex, written>>
    /\ MainFrame

FinishMain ==
    /\ pcMain = "loop"
    /\ mIndex = Len(spec_files)
    /\ pcMain' = "done"
    /\ UNCHANGED <<mIndex, written>>
    /\ MainFrame

NextMain == StartMain \/ ProcessSpecFile \/ FailOnMalformed \/ FinishMain

SpecMain == InitMain /\ [][NextMain]_vars

RunEnded == pcMain \in {"done", "aborted"}

\* C15 (the claim as stated): when a generation run has ended, the artifact
\* of every well-formed spec file of the run is written and that of no
\* malformed one is, whatever the order of the files.
C15_MalformedFailsOnlyItself ==
    RunEnded =>
        \A i \in 1..Len(spec_files) :
            spec_files[i].wellFormed <=> spec_files[i].name \in written

----------------------------------------------------------------------------
(* generate_docs: the categories of the tools of one source.  Tool names,  *)
(* descriptions and keywords are sequences of characters.                  *)

\* most tools of one source
MaxDocTools == 2

DocSources == {"xsiam", "xsoar", "unified"}

\* The keywords of the three categorize functions, by their spelling.
Keyword ==
    [xql |-> <<"x", "q", "l">>,
     query |-> <<"q", "u", "e", "r", "y">>,
     incident |-> <<"i", "n", "c", "i", "d", "e", "n", "t">>,
     alert |-> <<"a", "l", "e", "r", "t">>,
     endpoint |-> <<"e", "n", "d", "p", "o", "i", "n", "t">>,
     agent |-> <<"a", "g", "e", "n", "t">>,
     host |-> <<"h", "o", "s", "t">>,
     user |-> <<"u", "s", "e", "r">>,
     ip_address |-> <<"i", "p", "_", "a", "d", "d", "r", "e", "s", "s">>,
     ad_group |-> <<"a", "d", "_", "g", "r", "o", "u", "p">>,
     ou_ |-> <<"o", "u", "_">>,
     violation |-> <<"v", "i", "o", "l", "a", "t", "i", "o", "n">>,
     policy |-> <<"p", "o", "l", "i", "c", "y">>,
     scan |-> <<"s", "c", "a", "n">>,
     isolate |-> <<"i", "s", "o", "l", "a", "t", "e">>,
     unisolate |-> <<"u", "n", "i", "s", "o", "l", "a", "t", "e">>,
     quarantine |-> <<"q", "u", "a", "r", "a", "n", "t", "i", "n", "e">>,
     restore |-> <<"r", "e", "s", "t", "o", "r", "e">>,
     hash |-> <<"h", "a", "s", "h">>,
     reputation |-> <<"r", "e", "p", "u", "t", "a", "t", "i", "o", "n">>,
     ioc |-> <<"i", "o", "c">>,
     indicator |-> <<"i", "n", "d", "i", "c", "a", "t", "o", "r">>,
     bioc |-> <<"b", "i", "o", "c">>,
     audit |-> <<"a", "u", "d", "i", "t">>,
     rbac |-> <<"r", "b", "a", "c">>,
     role |-> <<"r", "o", "l", "e">>,
     healthcheck |-> <<"h", "e", "a", "l", "t", "h", "c", "h", "e", "c", "k">>,
     playbook |-> <<"p", "l", "a", "y", "b", "o", "o", "k">>,
     dashboard |-> <<"d", "a", "s", "h", "b", "o", "a", "r", "d">>,
     script |-> <<"s", "c", "r", "i", "p", "t">>,
     automation |-> <<"a", "u", "t", "o", "m", "a", "t", "i", "o", "n">>,
     investigation |-> <<"i", "n", "v", "e", "s", "t", "i", "g", "a", "t", "i", "o", "n">>,
     integration |-> <<"i", "n", "t", "e", "g", "r", "a", "t", "i", "o", "n">>,
     entry |-> <<"e", "n", "t", "r", "y">>,
     evidence |-> <<"e", "v", "i", "d", "e", "n", "c", "e">>,
     api_key |-> <<"a", "p", "i", "_", "k", "e", "y">>,
     classifier |-> <<"c", "l", "a", "s", "s", "i", "f", "i", "e", "r">>,
     mapper |-> <<"m", "a", "p", "p", "e", "r">>,
     layout |-> <<"l", "a", "y", "o", "u", "t">>,
     content |-> <<"c", "o", "n", "t", "e", "n", "t">>,
     widget |-> <<"w", "i", "d", "g", "e", "t">>,
     list |-> <<"l", "i", "s", "t">>,
     get_list |-> <<"g", "e", "t", "_", "l", "i", "s", "t">>]

\* Tool names of the generated registries: start_xql, run_query,
\* get_incident_script, Get_Alerts, isolate_endpoint, list_users, get_list,
\* get_audit_logs, ping.
DocToolNames ==
    {<<"s", "t", "a", "r", "t", "_", "x", "q", "l">>,
     <<"r", "u", "n", "_", "q", "u", "e", "r", "y">>,
     <<"g", "e", "t", "_", "i", "n", "c", "i", "d", "e", "n", "t", "_", "s", "c", "r", "i", "p", "t">>,
     <<"G", "e", "t", "_", "A", "l", "e", "r", "t", "s">>,
     <<"i", "s", "o", "l", "a", "t", "e", "_", "e", "n", "d", "p", "o", "i", "n", "t">>,
     <<"l", "i", "s", "t", "_", "u", "s", "e", "r", "s">>,
     <<"g", "e", "t", "_", "l", "i", "s", "t">>,
     <<"g", "e", "t", "_", "a", "u", "d", "i", "t", "_", "l", "o", "g", "s">>,
     <<"p", "i", "n", "g">>}

\* Descriptions: "Run XQL" and the default "No description available".
DocDescriptions ==
    {<<"R", "u", "n", " ", "X", "Q", "L">>,
     <<"N", "o", " ", "d", "e", "s", "c", "r", "i", "p", "t", "i", "o", "n", " ", "a", "v", "a", "i", "l", "a", "b", "l", "e">>}

DocTools == [name : DocToolNames, description : DocDescriptions]

\* The tools read from a registry file: each name once.
DocToolLists ==
    {ts \in UNION {[1..k -> DocTools] : k \in 0..MaxDocTools} :
        \A i, j \in 1..Len(ts) : i # j => ts[i].name # ts[j].name}

\* k in s, for strings
Contains(s, k) ==
    \E i \in 0..(Len(s) - Len(k)) : \A j \in 1..Len(k) : s[i + j] = k[j]

\* any(x in name for x in ks)
InName(lname, ks) == \E k \in ks : Contains(lname, Keyword[k])

\* The category categorize_xsiam_tools gives one tool.
categorize_xsiam_tool(tool) ==
    LET lname == Lower(tool.name)
    IN IF \/ InName(lname, {"xql"})
          \/ /\ InName(lname, {"query"})
             /\ Contains(Lower(tool.description), Keyword["xql"])
         THEN "XQL Queries"
       ELSE IF InName(lname, {"incident"}) THEN "Incidents"
       ELSE IF InName(lname, {"alert"}) THEN "Alerts"
       ELSE IF InName(lname, {"endpoint", "agent"}) THEN "Endpoints"
       ELSE IF InName(lname, {"host", "user", "ip_address", "ad_group", "ou_"})
         THEN "Assets & Identity"
       ELSE IF InName(lname, {"violation", "policy"}) THEN "Policy & Compliance"
       ELSE IF InName(lname, {"scan", "isolate", "unisolate", "quarantine", "restore"})
         THEN "Response Actions"
       ELSE IF InName(lname, {"hash", "reputation", "ioc", "indicator", "bioc"})
         THEN "Threat Intelligence"
       ELSE IF InName(lname, {"audit", "rbac", "role", "healthcheck"})
         THEN "Administration"
       ELSE IF InName(lname, {"playbook"}) THEN "Playbooks"
       ELSE IF InName(lname, {"dashboard"}) THEN "Dashboards"
       ELSE IF InName(lname, {"script"}) THEN "Scripts"
       ELSE "Other Operations"

\* A faulty variant of categorize_xsoar_tool: the incident predicate is
\* tried before the script predicate.
categorize_xsoar_tool_incident_first(tool) ==
    LET lname == Lower(tool.name)
    IN IF InName(lname, {"incident", "investigation"}) THEN "Incidents & Investigations"
       ELSE IF InName(lname, {"script", "automation"}) THEN "Automations & Scripts"
       ELSE IF InName(lname, {"playbook"}) THEN "Playbooks"
       ELSE IF InName(lname, {"indicator", "ioc"}) THEN "Indicators"
       ELSE IF InName(lname, {"integration"}) THEN "Integrations"
       ELSE IF InName(lname, {"entry", "evidence"}) THEN "Evidence & Entries"
       ELSE IF InName(lname, {"user", "role", "api_key"}) THEN "User Management"
       ELSE IF InName(lname, {"classifier", "mapper", "layout", "content"})
         THEN "Content Management"
       ELSE IF InName(lname, {"widget", "dashboard"}) THEN "Dashboards & Widgets"
       ELSE IF InName(lname, {"list"}) /\ InName(lname, {"get_list"}) THEN "Lists"
       ELSE "Other Operations"

\* The category categorize_xsoar_tools gives one tool.
categorize_xsoar_tool(tool) ==
    LET lname == Lower(tool.name)
    IN IF InName(lname, {"script", "automation"}) THEN "Automations & Scripts"
       ELSE IF InName(lname, {"incident", "investigation"}) THEN "Incidents & Investigations"
       ELSE IF InName(lname, {"playbook"}) THEN "Playbooks"
       ELSE IF InName(lname, {"indicator", "ioc"}) THEN "Indicators"
       ELSE IF InName(lname, {"integration"}) THEN "Integrations"
       ELSE IF InName(lname, {"entry", "evidence"}) THEN "Evidence & Entries"
       ELSE IF InName(lname, {"user", "role", "api_key"}) THEN "User Management"
       ELSE IF InName(lname, {"classifier", "mapper", "layout", "content"})
         THEN "Content Management"
       ELSE IF InName(lname, {"widget", "dashboard"}) THEN "Dashboards & Widgets"
       ELSE IF InName(lname, {"list"}) /\ InName(lname, {"get_list"}) THEN "Lists"
       ELSE "Other Operations"

\* The category categorize_unified_tools gives one tool.
categorize_unified_tool(tool) ==
    LET lname == Lower(tool.name)
    IN IF InName(lname, {"incident"}) THEN "Incidents"
       ELSE IF InName(lname, {"script", "automation"}) THEN "Automations & Scripts"
       ELSE IF InName(lname, {"audit"}) THEN "Logs & Audits"
       ELSE "Unified Operations"

CategoryOf(source, tool) ==
    CASE source = "xsiam" -> categorize_xsiam_tool(tool)
      [] source = "xsoar" -> categorize_xsoar_tool(tool)
      [] OTHER -> categorize_unified_tool(tool)

\* categories[category].append(tool) for every tool, in order; categories is
\* a defaultdict(list).
RECURSIVE AppendByCategory(_, _, _, _)
AppendByCategory(source, tools, i, categories) ==
    IF i > Len(tools) THEN categories
    ELSE LET category == CategoryOf(source, tools[i])
             old == IF category \in DictKeySet(categories)
                    THEN categories.val[category] ELSE <<>>
         IN AppendByCategory(source, tools, i + 1,
                             DictSet(categories, category, Append(old, tools[i])))

categorize_tools(source, tools) == AppendByCategory(source, tools, 1, EmptyDict)

OthersIdleDocs ==
    ServerIdle /\ SnakeIdle /\ GenIdle /\ UnifiedIdle /\ HandlerIdle /\ MainIdle /\ ConcIdle

InitDocs ==
    /\ OthersIdleDocs
    /\ dSource \in DocSources
    /\ dTools \in DocToolLists
    /\ dCategories = <<>>
    /\ pcDocs = "start"

CategorizeTools ==
    /\ pcDocs = "start"
    /\ dCategories' = categorize_tools(dSource, dTools)
    /\ pcDocs' = "done"
    /\ UNCHANGED <<dSource, dTools, serverVars, snakeVars, genVars, unifiedVars,
                   handlerVars, mainVars, concVars>>

NextDocs == CategorizeTools

SpecDocs == InitDocs /\ [][NextDocs]_vars

\* The fixed order of the keyword predicates of a source: category and the
\* keywords one of which the lowercase name contains.
Policy(source) ==
    CASE source = "xsiam" ->
           <<[category |-> "XQL Queries", keywords |-> {"xql"}],
             [category |-> "Incidents", keywords |-> {"incident"}],
             [category |-> "Alerts", keywords |-> {"alert"}],
             [category |-> "Endpoints", keywords |-> {"endpoint", "agent"}],
             [category |-> "Assets & Identity",
              keywords |-> {"host", "user", "ip_address", "ad_group", "ou_"}],
             [category |-> "Policy & Compliance", keywords |-> {"violation", "policy"}],
             [category |-> "Response Actions",
              keywords |-> {"scan", "isolate", "unisolate", "quarantine", "restore"}],
             [category |-> "Threat Intelligence",
              keywords |-> {"hash", "reputation", "ioc", "indicator", "bioc"}],
             [category |-> "Administration",
              keywords |-> {"audit", "rbac", "role", "healthcheck"}],
             [category |-> "Playbooks", keywords |-> {"playbook"}],
             [category |-> "Dashboards", keywords |-> {"dashboard"}],
             [category |-> "Scripts", keywords |-> {"script"}]>>
      [] source = "xsoar" ->
           <<[category |-> "Automations & Scripts", keywords |-> {"script", "automation"}],
             [category |-> "Incidents & Investigations",
              keywords |-> {"incident", "investigation"}],
             [category |-> "Playbooks", keywords |-> {"playbook"}],
             [category |-> "Indicators", keywords |-> {"indicator", "ioc"}],
             [category |-> "Integrations", keywords |-> {"integration"}],
             [category |-> "Evidence & Entries", keywords |-> {"entry", "evidence"}],
             [category |-> "User Management", keywords |-> {"user", "role", "api_key"}],
             [category |-> "Content Management",
              keywords |-> {"classifier", "mapper", "layout", "content"}],
             [category |-> "Dashboards & Widgets", keywords |-> {"widget", "dashboard"}],
             [category |-> "Lists", keywords |-> {"get_list"}]>>
      [] OTHER ->
           <<[category |-> "Incidents", keywords |-> {"incident"}],
             [category |-> "Automations & Scripts", keywords |-> {"script", "automation"}],
             [category |-> "Logs & Audits", keywords |-> {"audit"}]>>

\* The predicates of a source that match the lowercase name alone
MatchingPredicates(source, tool) ==
    {i \in 1..Len(Policy(source)) :
        InName(Lower(tool.name), Policy(source)[i].keywords)}

\* The category of the first predicate matching the name, else fallThrough
FirstMatch(source, tool, fallThrough) ==
    LET m == MatchingPredicates(source, tool)
    IN IF m = {} THEN fallThrough
       ELSE Policy(source)[CHOOSE i \in m : \A j \in m : i <= j].category

\* The category by the name alone, "Other Operations" on fall-through
CategoryByNameAlone(source, tool) == FirstMatch(source, tool, "Other Operations")

\* The category with the two exceptions: the first xsiam predicate also
\* matches a name containing "query" when the lowercase description
\* contains "xql", and the fall-through of unified is "Unified Operations".
CategoryByPolicy(source, tool) ==
    IF /\ source = "xsiam"
       /\ InName(Lower(tool.name), {"query"})
       /\ Contains(Lower(tool.description), Keyword["xql"])
    THEN "XQL Queries"
    ELSE FirstMatch(source, tool,
                    IF source = "unified" THEN "Unified Operations"
                    ELSE "Other Operations")

CategoriesHolding(tool) ==
    {c \in DictKeySet(dCategories) : tool \in SetOfSeq(dCategories.val[c])}

RECURSIVE SumOfSizes(_)
SumOfSizes(cs) ==
    IF cs = {} THEN 0
    ELSE LET c == CHOOSE x \in cs : TRUE
         IN Len(dCategories.val[c]) + SumOfSizes(cs \ {c})

----------------------------------------------------------------------------
(* Several requests in flight.  server.run handles each incoming request   *)
(* in a task of its own on the one event loop; a task runs until it awaits *)
(* or returns.  list_tools_handler awaits nothing; call_tool_handler       *)
(* awaits the generated handler, which awaits client.request.              *)

\* most requests in flight
MaxRequests == 3

RequestIds == 1..MaxRequests

\* A request before it is sent: a list-tools request, a call-tool request
\* whose upstream call returns, or a call-tool request whose upstream call
\* never returns.
UnsentTask(kind, hangs) ==
    [kind |-> kind, hangs |-> hangs, pc |-> "unsent", behind |-> FALSE,
     calls |-> 0, outcome |-> "", response |-> NoResponse]

UnsentTasks ==
    <<UnsentTask("list_tools", FALSE), UnsentTask("call_tool", FALSE),
      UnsentTask("call_tool", TRUE)>>

\* The requests of a run, up to the numbering of the requests: the order in
\* which they are sent is that of SendRequest, not of their numbers.
TaskMixes ==
    {[i \in RequestIds |-> UnsentTasks[f[i]]] :
        f \in {g \in [RequestIds -> 1..Len(UnsentTasks)] :
                  \A i, j \in RequestIds : i < j => g[i] <= g[j]}}

\* The registry the concurrent requests are served from
ConcRegistry == GeneratedModule("xsiam", ToolNames).TOOL_HANDLERS

\* Some call-tool request is waiting for an upstream call that never returns.
SomeCallHangs ==
    \E j \in RequestIds : cTasks[j].hangs /\ cTasks[j].pc = "awaiting"

\* A faulty variant of LoopAfterRequest: the upstream call is made without
\* yielding, the event loop is held until it returns.
LoopAfterBlockingRequest == "held"

\* await client.request(...): the task yields, the event loop is free.
LoopAfterRequest == "free"

OthersIdleConc ==
    ServerIdle /\ SnakeIdle /\ GenIdle /\ UnifiedIdle /\ HandlerIdle /\ MainIdle /\ DocsIdle

InitConc ==
    /\ OthersIdleConc
    /\ cTasks \in TaskMixes
    /\ pcConc = "free"

ConcFrame ==
    UNCHANGED <<serverVars, snakeVars, genVars, unifiedVars, handlerVars,
                mainVars, docsVars>>

\* The client sends request i.
SendRequest(i) ==
    /\ cTasks[i].pc = "unsent"
    /\ cTasks' = [cTasks EXCEPT ![i].pc = "pending", ![i].behind = SomeCallHangs]
    /\ UNCHANGED pcConc
    /\ ConcFrame

\* server.run starts the task of request i, a list-tools request:
\* list_tools_handler runs to its return.
ListToolsTask(i) ==
    /\ pcConc = "free"
    /\ cTasks[i].pc = "pending"
    /\ cTasks[i].kind = "list_tools"
    /\ cTasks' = [cTasks EXCEPT ![i].pc = "done",
                                ![i].response =
                                    list_tools_handler(ConcRegistry, EmptyDict, EmptyDict)]
    /\ UNCHANGED pcConc
    /\ ConcFrame

\* server.run starts the task of request i, a call-tool request:
\* call_tool_handler runs to the await of the upstream request.
CallToolTask(i) ==
    /\ pcConc = "free"
    /\ cTasks[i].pc = "pending"
    /\ cTasks[i].kind = "call_tool"
    /\ cTasks' = [cTasks EXCEPT ![i].pc = "awaiting", ![i].calls = @ + 1]
    /\ pcConc' = LoopAfterRequest
    /\ ConcFrame

\* The upstream API answers the request of task i.
UpstreamResponds(i) ==
    /\ cTasks[i].pc = "awaiting"
    /\ ~cTasks[i].hangs
    /\ \E upstream \in Upstream :
          cTasks' = [cTasks EXCEPT ![i].pc = "resumed", ![i].outcome = upstream]
    /\ pcConc' = "free"
    /\ ConcFrame

\* call_tool_handler resumes and runs to its return: the result, or the
\* ERROR text of the caught exception; the upstream call is not made again.
ResumeCallTool(i) ==
    /\ pcConc = "free"
    /\ cTasks[i].pc = "resumed"
    /\ cTasks' = [cTasks EXCEPT ![i].pc = "done",
                                ![i].response =
                                    call_tool_handler(ConcRegistry, ToolNames[1], None,
                                                      cTasks[i].outcome)]
    /\ UNCHANGED pcConc
    /\ ConcFrame

\* The steps the event loop and the upstream API take for request i
Progress(i) ==
    \/ ListToolsTask(i)
    \/ CallToolTask(i)
    \/ UpstreamResponds(i)
    \/ ResumeCallTool(i)

NextConc == \E i \in RequestIds : SendRequest(i) \/ Progress(i)

\* The event loop runs every ready task, and an upstream call that is not
\* hanging returns.
SpecConc ==
    /\ InitConc
    /\ [][NextConc]_vars
    /\ \A i \in RequestIds : WF_vars(Progress(i))

Answered(i) == cTasks[i].pc = "done" /\ cTasks[i].response # NoResponse

\* C17: with several requests in flight, every list-tools request and every
\* call-tool request whose own upstream call returns is eventually answered
\* once sent, also when another call-tool request waits for ever for its
\* upstream call; that request alone is never answered; no request makes
\* more than one upstream call.
C17_HangingCallBlocksOnlyItself ==
    /\ \A i \in RequestIds :
          (cTasks[i].pc = "pending" /\ ~cTasks[i].hangs) ~> Answered(i)
    /\ [](\A i \in RequestIds : cTasks[i].hangs => cTasks[i].pc # "done")
    /\ [](\A i \in RequestIds : cTasks[i].calls <= 1)

\* A call-tool request waits for its hanging upstream call; a list-tools
\* request and another call-tool request sent meanwhile are answered.
C17_Witness ==
    \E h, l, c \in RequestIds :
        /\ cTasks[h].hangs /\ cTasks[h].pc = "awaiting" /\ cTasks[h].calls = 1
        /\ cTasks[l].kind = "list_tools" /\ cTasks[l].behind /\ Answered(l)
        /\ cTasks[c].kind = "call_tool" /\ cTasks[c].behind /\ Answered(c)
        /\ cTasks[c].calls = 1

====
